---------------------------- MODULE Spec2Model ----------------------------
(***************************************************************************)
(* Home Credit risk dashboard: the data pipeline (synthetic records ->     *)
(* preprocessData -> addIncomeBrackets), the filter engine (applyFilters), *)
(* the KPI aggregator (calculateKPIs), the chart-data preparer             *)
(* (prepareChartData, createBins, groupBy, calculateDefaultRateByCategory),*)
(* the uploader's row conversion (handleFileUpload), the statistics        *)
(* (mean, median), calculatePearsonCorrelation, the generator's functions  *)
(* (randomAge, getDefaultRiskByProfile), the Index page (state, effects,   *)
(* handleDataLoaded, resetFilters) and the DataUploader (handleFileUpload, *)
(* loadSampleData).                                                        *)
(*                                                                         *)
(* Numbers with decimals are held as scaled integers:                      *)
(*   AGE_YEARS, EMPLOYMENT_YEARS           tenths of a year                *)
(*   DTI, ANNUITY_TO_CREDIT                thousandths                     *)
(*   LOAN_TO_INCOME                        hundredths                      *)
(* and every toFixed(k) result is held as the integer number of 10^-k      *)
(* units.  Math.round(x) is floor(x + 1/2); toFixed rounds the magnitude   *)
(* half up.  calculatePearsonCorrelation is computed in double precision   *)
(* (its sums of squares leave the range in which doubles are exact).       *)
(***************************************************************************)
EXTENDS Integers, Sequences, FiniteSets, TLC

VARIABLES rawData, filters, filteredData, op, out,
          uploading, progress, error, preview, parsing, effects

\* Index's state: rawData, filters, filteredData and the effects that are due
\* after the last render; DataUploader's state: uploading, progress, error,
\* preview and the files Papa.parse has not finished; op and out hold the last
\* operation and the value it returned
vars == <<rawData, filters, filteredData, op, out, uploading, progress, error, preview, parsing, effects>>

\* the state of the DataUploader and the effect queue
pageVars == <<uploading, progress, error, preview, parsing, effects>>

-----------------------------------------------------------------------------
(* Bounds of the model *)

\* longest batch of records drawn for the main specification
MaxRecords == 2

\* most filter dimensions that differ from the unconstrained setting
MaxActive == 1

\* most records of a batch drawn for the KPI specification
MaxApplicants == 32

\* longest list of values handed to mean and median
MaxValues == 3

-----------------------------------------------------------------------------
(* Generic helpers *)

Min(a, b) == IF a <= b THEN a ELSE b

Max(a, b) == IF a >= b THEN a ELSE b

Range(s) == {s[i] : i \in 1..Len(s)}

\* Array.prototype.includes
includes(list, v) == \E i \in 1..Len(list) : list[i] = v

\* Math.round for a ratio num/den with den > 0: floor(num/den + 1/2)
RoundDiv(num, den) == (2 * num + den) \div (2 * den)

RECURSIVE Sum(_)
Sum(s) == IF Len(s) = 0 THEN 0 ELSE Head(s) + Sum(Tail(s))

RECURSIVE Insert(_, _)
Insert(x, s) ==
  IF Len(s) = 0 THEN <<x>>
  ELSE IF x < Head(s) THEN <<x>> \o s
  ELSE <<Head(s)>> \o Insert(x, Tail(s))

\* values.sort((a, b) => a - b): ascending, stable
RECURSIVE SortAsc(_)
SortAsc(s) == IF Len(s) = 0 THEN <<>> ELSE Insert(s[Len(s)], SortAsc(SubSeq(s, 1, Len(s) - 1)))

-----------------------------------------------------------------------------
(* Record model *)

RawFields ==
  {"SK_ID_CURR", "TARGET", "CODE_GENDER", "DAYS_BIRTH", "DAYS_EMPLOYED",
   "NAME_FAMILY_STATUS", "CNT_CHILDREN", "CNT_FAM_MEMBERS", "NAME_EDUCATION_TYPE",
   "OCCUPATION_TYPE", "NAME_HOUSING_TYPE", "AMT_INCOME_TOTAL", "AMT_CREDIT",
   "AMT_ANNUITY", "AMT_GOODS_PRICE", "NAME_CONTRACT_TYPE", "REGION_RATING_CLIENT",
   "FLAG_OWN_CAR", "FLAG_OWN_REALTY"}

DerivedFields ==
  {"AGE_YEARS", "EMPLOYMENT_YEARS", "DTI", "LOAN_TO_INCOME", "ANNUITY_TO_CREDIT"}

\* the DAYS_EMPLOYED code of an unemployed applicant
UnemployedCode == 365243

\* an optional field is present
has(r, f) == f \in DOMAIN r

\* JavaScript truthiness of an optional numeric field: absent and 0 are falsy
truthy(r, f) == has(r, f) /\ r[f] # 0

\* One record as generateSyntheticData builds it from its draws: age is a whole
\* number of years (randomAge yields 30..54), employment is in tenths of a year
\* here (0 stands for the "unemployed" draw of -1), the amounts are already
\* rounded.
SyntheticRecord(target, gender, age, empTenths, family, children, members, education, housing, income, credit, annuity) ==
  [SK_ID_CURR |-> 100000,
   TARGET |-> target,
   CODE_GENDER |-> gender,
   DAYS_BIRTH |-> 0 - RoundDiv(age * 1461, 4),
   DAYS_EMPLOYED |-> IF empTenths > 0 THEN 0 - RoundDiv(empTenths * 1461, 40)
                     ELSE UnemployedCode,
   NAME_FAMILY_STATUS |-> family,
   CNT_CHILDREN |-> children,
   CNT_FAM_MEMBERS |-> members,
   NAME_EDUCATION_TYPE |-> education,
   OCCUPATION_TYPE |-> "Laborers",
   NAME_HOUSING_TYPE |-> housing,
   AMT_INCOME_TOTAL |-> income,
   AMT_CREDIT |-> credit,
   AMT_ANNUITY |-> annuity,
   AMT_GOODS_PRICE |-> credit,
   NAME_CONTRACT_TYPE |-> "Cash loans",
   REGION_RATING_CLIENT |-> 2,
   FLAG_OWN_CAR |-> "N",
   FLAG_OWN_REALTY |-> "Y"]

\* The raw records the batches are drawn from.
RecordPool ==
  << SyntheticRecord(1, "M", 30, 5, "Married", 0, 2,
                     "Secondary / secondary special", "House / apartment",
                     90000, 270000, 2250),
     SyntheticRecord(0, "F", 42, 120, "Single / not married", 2, 4,
                     "Higher education", "With parents",
                     150000, 600000, 5000),
     SyntheticRecord(0, "XNA", 54, 0, "Married", 0, 1,
                     "Secondary / secondary special", "House / apartment",
                     600000, 1200000, 15000),
     SyntheticRecord(1, "F", 42, 200, "Married", 1, 3,
                     "Higher education", "With parents",
                     150000, 450000, 3000) >>

\* generateSyntheticData / the uploader's row conversion: record i of a batch
\* gets SK_ID_CURR 100000 + i (i counted from 0)
RawBatch(picks) ==
  [i \in 1..Len(picks) |-> [RecordPool[picks[i]] EXCEPT !.SK_ID_CURR = 100000 + (i - 1)]]

-----------------------------------------------------------------------------
(* Generator: the draws behind a record.  A Math.random() value is held in    *)
(* thousandths (0..999), a probability in millionths.                         *)

\* randomAge for one pair of draws: Math.round(42 + 12 * (r1 + r2 - 1)); the
\* loop draws again while the unrounded age is below 18 or above 80
randomAge(r1, r2) == RoundDiv(42000 + 12 * (r1 + r2 - 1000), 1000)

\* the unrounded age of a pair of draws lies in the range the loop accepts
ageAccepted(r1, r2) ==
  /\ 42000 + 12 * (r1 + r2 - 1000) >= 18000
  /\ 42000 + 12 * (r1 + r2 - 1000) <= 80000

\* getDefaultRiskByProfile without the cap
getDefaultRiskByProfile_uncapped(age, income, education, employment) ==
  8 * (IF age < 25 THEN 15 ELSE IF age < 35 THEN 12 ELSE IF age > 65 THEN 13 ELSE 10)
    * (IF income < 100000 THEN 20 ELSE IF income < 200000 THEN 14
       ELSE IF income > 500000 THEN 6 ELSE 10)
    * (IF education \in {"Higher education", "Academic degree"} THEN 7
       ELSE IF education = "Lower secondary" THEN 14 ELSE 10)
    * (IF employment < 10 THEN 18 ELSE IF employment > 100 THEN 8 ELSE 10)

\* baseRisk 0.08 is 8 hundredths and every factor is held in tenths, so the
\* product of the four factors and 8 is the risk in millionths; employment is
\* in tenths of a year (-10 for the draw of -1).  Math.min(0.5, baseRisk).
getDefaultRiskByProfile(age, income, education, employment) ==
  LET ageFactor == IF age < 25 THEN 15 ELSE IF age < 35 THEN 12
                   ELSE IF age > 65 THEN 13 ELSE 10
      incomeFactor == IF income < 100000 THEN 20 ELSE IF income < 200000 THEN 14
                      ELSE IF income > 500000 THEN 6 ELSE 10
      educationFactor == IF education \in {"Higher education", "Academic degree"} THEN 7
                         ELSE IF education = "Lower secondary" THEN 14 ELSE 10
      employmentFactor == IF employment < 10 THEN 18
                          ELSE IF employment > 100 THEN 8 ELSE 10
      baseRisk == 8 * ageFactor * incomeFactor * educationFactor * employmentFactor
  IN  Min(500000, baseRisk)

\* const target = Math.random() < defaultRisk ? 1 : 0, the draw in thousandths
drawTarget(draw, defaultRisk) == IF draw * 1000 < defaultRisk THEN 1 ELSE 0

-----------------------------------------------------------------------------
(* Feature deriver *)

\* preprocessRecord converting DAYS_EMPLOYED like DAYS_BIRTH: no test for the
\* unemployed code, no floor at zero
preprocessRecord_naiveEmployment(record) ==
  LET age10 == RoundDiv((0 - record.DAYS_BIRTH) * 40, 1461)
      emp10 == RoundDiv((0 - record.DAYS_EMPLOYED) * 40, 1461)
  IN  [f \in RawFields \cup DerivedFields |->
         CASE f = "AGE_YEARS" -> age10
           [] f = "EMPLOYMENT_YEARS" -> emp10
           [] f = "DTI" -> RoundDiv(record.AMT_ANNUITY * 1000, record.AMT_INCOME_TOTAL)
           [] f = "LOAN_TO_INCOME" -> RoundDiv(record.AMT_CREDIT * 100, record.AMT_INCOME_TOTAL)
           [] f = "ANNUITY_TO_CREDIT" -> RoundDiv(record.AMT_ANNUITY * 1000, record.AMT_CREDIT)
           [] OTHER -> record[f]]

preprocessRecord(record) ==
  LET \* Math.round(ageYears * 10), ageYears = -DAYS_BIRTH / 365.25
      age10 == RoundDiv((0 - record.DAYS_BIRTH) * 40, 1461)
      emp10 == IF record.DAYS_EMPLOYED = UnemployedCode THEN 0
               ELSE RoundDiv((0 - record.DAYS_EMPLOYED) * 40, 1461)
  IN  [f \in RawFields \cup DerivedFields |->
         CASE f = "AGE_YEARS" -> age10
           [] f = "EMPLOYMENT_YEARS" -> Max(0, emp10)
           [] f = "DTI" -> RoundDiv(record.AMT_ANNUITY * 1000, record.AMT_INCOME_TOTAL)
           [] f = "LOAN_TO_INCOME" -> RoundDiv(record.AMT_CREDIT * 100, record.AMT_INCOME_TOTAL)
           [] f = "ANNUITY_TO_CREDIT" -> RoundDiv(record.AMT_ANNUITY * 1000, record.AMT_CREDIT)
           [] OTHER -> record[f]]

preprocessData(records) == [i \in 1..Len(records) |-> preprocessRecord(records[i])]

\* addIncomeBrackets taking the quartiles at floor((n - 1) * 0.25) and
\* floor((n - 1) * 0.75)
addIncomeBrackets_lowerQuartiles(records) ==
  LET incomes == SortAsc([i \in 1..Len(records) |-> records[i].AMT_INCOME_TOTAL])
      n == Len(incomes)
      q1 == incomes[((n - 1) \div 4) + 1]
      q3 == incomes[((3 * (n - 1)) \div 4) + 1]
      bracket(record) ==
        [f \in DOMAIN record \cup {"INCOME_BRACKET"} |->
           IF f = "INCOME_BRACKET"
           THEN IF record.AMT_INCOME_TOTAL <= q1 THEN "Low"
                ELSE IF record.AMT_INCOME_TOTAL >= q3 THEN "High"
                ELSE "Mid"
           ELSE record[f]]
  IN  [i \in 1..Len(records) |-> bracket(records[i])]

\* addIncomeBrackets with thresholds that do not depend on the collection
addIncomeBrackets_fixedThresholds(records) ==
  LET bracket(record) ==
        [f \in DOMAIN record \cup {"INCOME_BRACKET"} |->
           IF f = "INCOME_BRACKET"
           THEN IF record.AMT_INCOME_TOTAL <= 100000 THEN "Low"
                ELSE IF record.AMT_INCOME_TOTAL >= 200000 THEN "High"
                ELSE "Mid"
           ELSE record[f]]
  IN  [i \in 1..Len(records) |-> bracket(records[i])]

addIncomeBrackets(records) ==
  LET incomes == SortAsc([i \in 1..Len(records) |-> records[i].AMT_INCOME_TOTAL])
      n == Len(incomes)
      \* 0-based indexes floor(n * 0.25) and floor(n * 0.75)
      q1 == incomes[(n \div 4) + 1]
      q3 == incomes[((3 * n) \div 4) + 1]
      bracket(record) ==
        [f \in DOMAIN record \cup {"INCOME_BRACKET"} |->
           IF f = "INCOME_BRACKET"
           THEN IF record.AMT_INCOME_TOTAL <= q1 THEN "Low"
                ELSE IF record.AMT_INCOME_TOTAL >= q3 THEN "High"
                ELSE "Mid"
           ELSE record[f]]
  IN  [i \in 1..Len(records) |-> bracket(records[i])]

generateCompleteDataset(picks) == addIncomeBrackets(preprocessData(RawBatch(picks)))

-----------------------------------------------------------------------------
(* Upload path *)

\* Rows of parsed files (header: true): a row holds the columns its file has.
\* A numeric cell is held as the number parseInt / parseFloat reads from it.
\* The five required columns are in every row; the files have no SK_ID_CURR
\* column.
UploadRows ==
  << [TARGET |-> 1, CODE_GENDER |-> "M", DAYS_BIRTH |-> 0 - 6575,
      AMT_INCOME_TOTAL |-> 600000, AMT_CREDIT |-> 270000,
      NAME_HOUSING_TYPE |-> "2"],
     [TARGET |-> 0, CODE_GENDER |-> "F", DAYS_BIRTH |-> 0 - 15341,
      DAYS_EMPLOYED |-> 0 - 4383, NAME_FAMILY_STATUS |-> "Single / not married",
      CNT_CHILDREN |-> 2, CNT_FAM_MEMBERS |-> 4,
      NAME_EDUCATION_TYPE |-> "Higher education", NAME_HOUSING_TYPE |-> "1",
      AMT_INCOME_TOTAL |-> 150000, AMT_CREDIT |-> 600000, AMT_ANNUITY |-> 5000],
     [TARGET |-> 0, CODE_GENDER |-> "XNA", DAYS_BIRTH |-> 0 - 29220,
      DAYS_EMPLOYED |-> UnemployedCode, NAME_FAMILY_STATUS |-> "Married",
      CNT_FAM_MEMBERS |-> 1,
      NAME_EDUCATION_TYPE |-> "Secondary / secondary special",
      NAME_HOUSING_TYPE |-> "__proto__",
      AMT_INCOME_TOTAL |-> 90000, AMT_CREDIT |-> 1200000, AMT_ANNUITY |-> 15000],
     [TARGET |-> 1, CODE_GENDER |-> "F", DAYS_BIRTH |-> 0 - 15341,
      DAYS_EMPLOYED |-> 0 - 7305, NAME_FAMILY_STATUS |-> "Married",
      CNT_CHILDREN |-> 1, CNT_FAM_MEMBERS |-> 3,
      NAME_EDUCATION_TYPE |-> "Higher education", NAME_HOUSING_TYPE |-> "With parents",
      AMT_INCOME_TOTAL |-> 150000, AMT_CREDIT |-> 450000, AMT_ANNUITY |-> 3000] >>

\* the callback of data.map((row, index) => ...): row.X || fallback
convertRow(row, index) ==
  LET cell(column, fallback) == IF column \in DOMAIN row THEN row[column] ELSE fallback
  IN  [SK_ID_CURR |-> cell("SK_ID_CURR", 100000 + index),
       TARGET |-> row.TARGET,
       CODE_GENDER |-> row.CODE_GENDER,
       DAYS_BIRTH |-> row.DAYS_BIRTH,
       DAYS_EMPLOYED |-> cell("DAYS_EMPLOYED", 0),
       NAME_FAMILY_STATUS |-> cell("NAME_FAMILY_STATUS", "Unknown"),
       CNT_CHILDREN |-> cell("CNT_CHILDREN", 0),
       CNT_FAM_MEMBERS |-> cell("CNT_FAM_MEMBERS", 1),
       NAME_EDUCATION_TYPE |-> cell("NAME_EDUCATION_TYPE", "Unknown"),
       OCCUPATION_TYPE |-> cell("OCCUPATION_TYPE", ""),
       NAME_HOUSING_TYPE |-> cell("NAME_HOUSING_TYPE", "Unknown"),
       AMT_INCOME_TOTAL |-> row.AMT_INCOME_TOTAL,
       AMT_CREDIT |-> row.AMT_CREDIT,
       AMT_ANNUITY |-> cell("AMT_ANNUITY", 0),
       AMT_GOODS_PRICE |-> cell("AMT_GOODS_PRICE", 0),
       NAME_CONTRACT_TYPE |-> cell("NAME_CONTRACT_TYPE", "Cash loans"),
       REGION_RATING_CLIENT |-> cell("REGION_RATING_CLIENT", 1),
       FLAG_OWN_CAR |-> cell("FLAG_OWN_CAR", "N"),
       FLAG_OWN_REALTY |-> cell("FLAG_OWN_REALTY", "N")]

\* what handleFileUpload hands to onDataLoaded for the rows picked: the
\* converted rows, nothing derived
processedData(picks) ==
  [i \in 1..Len(picks) |-> convertRow(UploadRows[picks[i]], i - 1)]

-----------------------------------------------------------------------------
(* Filter engine *)

\* GenderPass without the length test: an empty list would exclude every record
GenderPass_noEmptyCheck(record, f) == includes(f.gender, record.CODE_GENDER)

GenderPass(record, f) ==
  ~(Len(f.gender) > 0 /\ ~includes(f.gender, record.CODE_GENDER))

EducationPass(record, f) ==
  ~(Len(f.education) > 0 /\ ~includes(f.education, record.NAME_EDUCATION_TYPE))

FamilyStatusPass(record, f) ==
  ~(Len(f.familyStatus) > 0 /\ ~includes(f.familyStatus, record.NAME_FAMILY_STATUS))

HousingPass(record, f) ==
  ~(Len(f.housingType) > 0 /\ ~includes(f.housingType, record.NAME_HOUSING_TYPE))

\* AgePass with an exclusive upper bound (>= instead of >)
AgePass_exclusiveHi(record, f) ==
  ~(truthy(record, "AGE_YEARS") /\
      (record.AGE_YEARS < 10 * f.ageRange[1] \/ record.AGE_YEARS >= 10 * f.ageRange[2]))

\* AgePass with an exclusive lower bound (<= instead of <)
AgePass_exclusiveLo(record, f) ==
  ~(truthy(record, "AGE_YEARS") /\
      (record.AGE_YEARS <= 10 * f.ageRange[1] \/ record.AGE_YEARS > 10 * f.ageRange[2]))

\* AGE_YEARS is in tenths, the range in whole years
AgePass(record, f) ==
  ~(truthy(record, "AGE_YEARS") /\
      (record.AGE_YEARS < 10 * f.ageRange[1] \/ record.AGE_YEARS > 10 * f.ageRange[2]))

bracketMap(key) ==
  CASE key = "low" -> "Low"
    [] key = "mid" -> "Mid"
    [] key = "high" -> "High"
    [] OTHER -> "undefined"

BracketPass(record, f) ==
  ~(f.incomeBracket # "all" /\
      (IF has(record, "INCOME_BRACKET") THEN record.INCOME_BRACKET ELSE "undefined")
        # bracketMap(f.incomeBracket))

\* EmploymentPass testing presence instead of truthiness: zero years would be
\* held to the range
EmploymentPass_zeroChecked(record, f) ==
  ~(has(record, "EMPLOYMENT_YEARS") /\
      (record.EMPLOYMENT_YEARS < 10 * f.employmentRange[1] \/
       record.EMPLOYMENT_YEARS > 10 * f.employmentRange[2]))

EmploymentPass(record, f) ==
  ~(truthy(record, "EMPLOYMENT_YEARS") /\
      (record.EMPLOYMENT_YEARS < 10 * f.employmentRange[1] \/
       record.EMPLOYMENT_YEARS > 10 * f.employmentRange[2]))

\* the callback of data.filter(...)
FilterKeeps(record, f) ==
  /\ GenderPass(record, f)
  /\ EducationPass(record, f)
  /\ FamilyStatusPass(record, f)
  /\ HousingPass(record, f)
  /\ AgePass(record, f)
  /\ BracketPass(record, f)
  /\ EmploymentPass(record, f)

\* applyFilters assigning the income brackets anew within the kept records
applyFilters_rebracketed(data, f) ==
  LET keep(record) == FilterKeeps(record, f) IN addIncomeBrackets(SelectSeq(data, keep))

\* applyFilters collecting the kept records in reverse (unshift instead of push)
applyFilters_reversed(data, f) ==
  LET keep(record) == FilterKeeps(record, f)
      kept == SelectSeq(data, keep)
  IN  [i \in 1..Len(kept) |-> kept[Len(kept) + 1 - i]]

applyFilters(data, f) ==
  \* data.filter(callback)
  LET keep(record) == FilterKeeps(record, f) IN SelectSeq(data, keep)

-----------------------------------------------------------------------------
(* Statistics library *)

\* a JavaScript number that is a ratio of integers, den > 0
Rat(num, den) == [num |-> num, den |-> den]

\* the "no value" sentinel
Null == [null |-> TRUE]

isNull(x) == "null" \in DOMAIN x

\* mean without the test for an empty list: 0 / 0
mean_noGuard(values) ==
  IF Len(values) = 0 THEN [nan |-> TRUE]
  ELSE Rat(Sum(values), Len(values))

mean(values) ==
  IF Len(values) = 0 THEN Null
  ELSE Rat(Sum(values), Len(values))

\* median taking the middle of the list as given, without sorting
median_unsorted(values) ==
  IF Len(values) = 0 THEN Null
  ELSE LET mid == Len(values) \div 2
       IN  IF Len(values) % 2 = 0
           THEN Rat(values[mid] + values[mid + 1], 2)
           ELSE Rat(values[mid + 1], 1)

median(values) ==
  IF Len(values) = 0 THEN Null
  ELSE LET sorted == SortAsc(values)
           \* 0-based index Math.floor(sorted.length / 2)
           mid == Len(sorted) \div 2
       IN  IF Len(sorted) % 2 = 0
           THEN Rat(sorted[mid] + sorted[mid + 1], 2)
           ELSE Rat(sorted[mid + 1], 1)

\* Number(x.toFixed(k)) in units of 10^-k, for x = num / (den * 10^k) given as
\* the ratio num/den of those units: the magnitude is rounded half up
toFixed(num, den) ==
  IF num >= 0 THEN RoundDiv(num, den) ELSE 0 - RoundDiv(0 - num, den)

\* Number(x?.toFixed(k) || 0) for a mean or median x whose values are already
\* in units of 10^-k
fixedOrZero(x) == IF isNull(x) THEN 0 ELSE toFixed(x.num, x.den)

\* the same for values in whole units shown with one decimal
fixedOrZero10(x) == IF isNull(x) THEN 0 ELSE toFixed(10 * x.num, x.den)

\* a null operand of "-" counts as 0
numOf(x) == IF isNull(x) THEN Rat(0, 1) ELSE x

-----------------------------------------------------------------------------
(* KPI aggregator *)

KPIKeys ==
  {"totalApplicants", "defaultRate", "repaidRate", "totalFeatures",
   "numericalFeatures", "categoricalFeatures", "medianAge", "medianIncome",
   "avgCredit", "totalDefaults", "avgIncomeDefaulters", "avgIncomeNonDefaulters",
   "incomeGap", "malePercentage", "femalePercentage", "withChildrenPercentage",
   "avgFamilySize", "avgIncome", "avgAnnuity", "avgDTI", "avgLTI",
   "highCreditPercentage"}

Field(data, f) == [i \in 1..Len(data) |-> data[i][f]]

\* incomeGap floored at zero
incomeGap_clamped(avgIncomeNonDefaulters, avgIncomeDefaulters) ==
  LET a == numOf(avgIncomeNonDefaulters)
      b == numOf(avgIncomeDefaulters)
  IN  Max(0, toFixed(a.num * b.den - b.num * a.den, a.den * b.den))

\* Number((avgIncomeNonDefaulters - avgIncomeDefaulters)?.toFixed(0) || 0):
\* a null mean enters the difference as 0
incomeGap(avgIncomeNonDefaulters, avgIncomeDefaulters) ==
  LET a == numOf(avgIncomeNonDefaulters)
      b == numOf(avgIncomeDefaulters)
  IN  toFixed(a.num * b.den - b.num * a.den, a.den * b.den)

\* defaultRate and repaidRate in hundredths of a percent point, the other
\* percentages, medianAge and avgFamilySize in tenths, avgDTI in thousandths,
\* avgLTI in hundredths, amounts in whole units
calculateKPIs(data) ==
  IF Len(data) = 0 THEN [k \in {} |-> 0]
  ELSE
    LET isDefault(r) == r.TARGET = 1
        isRepaid(r) == r.TARGET = 0
        hasAge(r) == truthy(r, "AGE_YEARS")
        hasAnnuity(r) == r.AMT_ANNUITY # 0
        hasDTI(r) == truthy(r, "DTI") /\ r.DTI > 0
        hasLTI(r) == truthy(r, "LOAN_TO_INCOME") /\ r.LOAN_TO_INCOME > 0
        isMale(r) == r.CODE_GENDER = "M"
        isFemale(r) == r.CODE_GENDER = "F"
        withChildren(r) == r.CNT_CHILDREN > 0
        highCredit(r) == r.AMT_CREDIT > 1000000
        totalApplicants == Len(data)
        totalDefaults == Len(SelectSeq(data, isDefault))
        ages == Field(SelectSeq(data, hasAge), "AGE_YEARS")
        incomes == Field(data, "AMT_INCOME_TOTAL")
        credits == Field(data, "AMT_CREDIT")
        annuities == Field(SelectSeq(data, hasAnnuity), "AMT_ANNUITY")
        totalFeatures == Cardinality(DOMAIN data[1])
        numericalFeatures == 6
        dtiValues == Field(SelectSeq(data, hasDTI), "DTI")
        ltiValues == Field(SelectSeq(data, hasLTI), "LOAN_TO_INCOME")
        maleCount == Len(SelectSeq(data, isMale))
        femaleCount == Len(SelectSeq(data, isFemale))
        withChildrenCount == Len(SelectSeq(data, withChildren))
        avgIncomeDefaulters == mean(Field(SelectSeq(data, isDefault), "AMT_INCOME_TOTAL"))
        avgIncomeNonDefaulters == mean(Field(SelectSeq(data, isRepaid), "AMT_INCOME_TOTAL"))
    IN  [totalApplicants |-> totalApplicants,
         \* defaultRate = totalDefaults / totalApplicants * 100, repaidRate = 100 - defaultRate,
         \* each rounded on its own by toFixed(2)
         defaultRate |-> toFixed(10000 * totalDefaults, totalApplicants),
         repaidRate |-> toFixed(10000 * totalApplicants - 10000 * totalDefaults, totalApplicants),
         totalFeatures |-> totalFeatures,
         numericalFeatures |-> numericalFeatures,
         categoricalFeatures |-> totalFeatures - numericalFeatures,
         medianAge |-> fixedOrZero(median(ages)),
         medianIncome |-> fixedOrZero(median(incomes)),
         avgCredit |-> fixedOrZero(mean(credits)),
         totalDefaults |-> totalDefaults,
         avgIncomeDefaulters |-> fixedOrZero(avgIncomeDefaulters),
         avgIncomeNonDefaulters |-> fixedOrZero(avgIncomeNonDefaulters),
         incomeGap |-> incomeGap(avgIncomeNonDefaulters, avgIncomeDefaulters),
         malePercentage |-> toFixed(1000 * maleCount, totalApplicants),
         femalePercentage |-> toFixed(1000 * femaleCount, totalApplicants),
         withChildrenPercentage |-> toFixed(1000 * withChildrenCount, totalApplicants),
         avgFamilySize |-> fixedOrZero10(mean(Field(data, "CNT_FAM_MEMBERS"))),
         avgIncome |-> fixedOrZero(mean(incomes)),
         avgAnnuity |-> fixedOrZero(mean(annuities)),
         avgDTI |-> fixedOrZero(mean(dtiValues)),
         avgLTI |-> fixedOrZero(mean(ltiValues)),
         highCreditPercentage |-> toFixed(1000 * Len(SelectSeq(data, highCredit)), totalApplicants)]

-----------------------------------------------------------------------------
(* Chart-data preparer *)

\* how a call ends: with a value, or with an exception
Return(v) == [threw |-> FALSE, value |-> v]

Throw(e) == [threw |-> TRUE, error |-> e]

\* Array.prototype.sort with a comparator: before holds the pairs <<a, b>> of
\* indexes with compare(items[a], items[b]) < 0; the sort is stable
StableSort(items, before) ==
  LET n == Len(items)
      rank(i) ==
        1 + Cardinality({j \in 1..n :
                           \/ <<j, i>> \in before
                           \/ /\ <<i, j>> \notin before
                              /\ j < i})
  IN  [p \in 1..n |-> items[CHOOSE i \in 1..n : rank(i) = p]]

\* the distinct values of s in the order of their first occurrence
RECURSIVE FirstSeen(_)
FirstSeen(s) ==
  IF Len(s) = 0 THEN <<>>
  ELSE LET d == FirstSeen(SubSeq(s, 1, Len(s) - 1))
       IN  IF includes(d, s[Len(s)]) THEN d ELSE Append(d, s[Len(s)])

\* the number a property name stands for when it is an array index ("0", "1",
\* ...; the names drawn here go up to "3"), -1 for every other name
ArrayIndex(name) ==
  CASE name = "0" -> 0
    [] name = "1" -> 1
    [] name = "2" -> 2
    [] name = "3" -> 3
    [] OTHER -> 0 - 1

\* acc[name] of a fresh {} is already truthy when Object.prototype has the
\* name.  For "__proto__" it is Object.prototype itself: acc[name] = ... + 1
\* assigns a string to __proto__, which the setter ignores, and
\* acc[name].total++ writes to Object.prototype; acc gets no own property.
\* (Of the names Object.prototype defines, the values drawn here hold this one.)
inherited(name) == name = "__proto__"

\* The keys Object.entries lists for an object to which the names were
\* assigned in this order: array indexes first, ascending, then the other own
\* names in the order of their first assignment.
ObjectEntries(names) ==
  LET own(name) == ~inherited(name)
      isIndex(name) == ArrayIndex(name) >= 0
      isString(name) == ArrayIndex(name) < 0
      keys == SelectSeq(FirstSeen(names), own)
      indexes == SelectSeq(keys, isIndex)
      ascending == {p \in (1..Len(indexes)) \X (1..Len(indexes)) :
                      ArrayIndex(indexes[p[1]]) < ArrayIndex(indexes[p[2]])}
  IN  StableSort(indexes, ascending) \o SelectSeq(keys, isString)

\* Bin i (0-based) spans min + i * binSize .. min + (i + 1) * binSize with
\* binSize = (max - min) / numBins; boundaries are kept as ratios over numBins
\* and (value - min) / binSize as the exact ratio (value - min) * numBins / (max - min).
createBins(values, numBins) ==
  IF Len(values) = 0
  THEN \* Math.min() is Infinity and Math.max() is -Infinity: every boundary is
       \* NaN and no value is counted
       Return([i \in 1..numBins |-> [range |-> "NaN-NaN", count |-> 0, nan |-> TRUE]])
  ELSE
    LET min == CHOOSE v \in Range(values) : \A w \in Range(values) : v <= w
        max == CHOOSE v \in Range(values) : \A w \in Range(values) : v >= w
        lo(i) == Rat(min * numBins + i * (max - min), numBins)
        binIndex(value) == Min(((value - min) * numBins) \div (max - min), numBins - 1)
    IN  IF max = min
        THEN \* binSize is 0, (value - min) / binSize is 0 / 0 = NaN, Math.floor and
             \* Math.min keep NaN, bins[NaN] is undefined and .count++ throws
             Throw("TypeError")
        ELSE Return([i \in 1..numBins |->
                      [range |-> <<RoundDiv(lo(i - 1).num, numBins), RoundDiv(lo(i).num, numBins)>>,
                       count |-> Cardinality({j \in 1..Len(values) : binIndex(values[j]) = i - 1}),
                       min |-> lo(i - 1),
                       max |-> lo(i)]])

groupBy(data, key) ==
  LET values == Field(data, key)
      keys == ObjectEntries(values)
      entry(k) ==
        LET count == Cardinality({i \in 1..Len(values) : values[i] = k})
        IN  [key |-> k, count |-> count, name |-> k, value |-> count]
      entries == [i \in 1..Len(keys) |-> entry(keys[i])]
      \* b.count - a.count < 0
      before == {p \in (1..Len(entries)) \X (1..Len(entries)) :
                   entries[p[2]].count - entries[p[1]].count < 0}
  IN  StableSort(entries, before)

calculateDefaultRateByCategory(data, category) ==
  LET values == Field(data, category)
      keys == ObjectEntries(values)
      entry(k) ==
        LET total == Cardinality({i \in 1..Len(values) : values[i] = k})
            defaults == Cardinality({i \in 1..Len(values) : values[i] = k /\ data[i].TARGET = 1})
        IN  [category |-> k, defaultRate |-> Rat(100 * defaults, total),
             total |-> total, defaults |-> defaults]
      entries == [i \in 1..Len(keys) |-> entry(keys[i])]
      \* b.defaultRate - a.defaultRate < 0
      before == {p \in (1..Len(entries)) \X (1..Len(entries)) :
                   entries[p[2]].defaultRate.num * entries[p[1]].defaultRate.den
                     < entries[p[1]].defaultRate.num * entries[p[2]].defaultRate.den}
  IN  StableSort(entries, before)

ChartTypes ==
  {"target_distribution", "age_distribution", "income_distribution",
   "gender_distribution", "education_distribution", "family_status_distribution",
   "default_by_gender", "default_by_education", "default_by_housing",
   "housing_distribution", "unknown"}

prepareChartData(data, type) ==
  LET isDefault(r) == r.TARGET = 1
      hasAge(r) == truthy(r, "AGE_YEARS")
      genderName(e) ==
        [name |-> IF e.key = "M" THEN "Male" ELSE IF e.key = "F" THEN "Female" ELSE "Not Specified",
         value |-> e.count]
  IN  CASE type = "target_distribution" ->
             LET defaultCount == Len(SelectSeq(data, isDefault))
             IN  Return(<<[name |-> "Repaid", value |-> Len(data) - defaultCount],
                          [name |-> "Default", value |-> defaultCount]>>)
        [] type = "age_distribution" ->
             createBins(Field(SelectSeq(data, hasAge), "AGE_YEARS"), 15)
        [] type = "income_distribution" ->
             createBins(Field(data, "AMT_INCOME_TOTAL"), 20)
        [] type = "gender_distribution" ->
             LET groups == groupBy(data, "CODE_GENDER")
             IN  Return([i \in 1..Len(groups) |-> genderName(groups[i])])
        [] type = "education_distribution" -> Return(groupBy(data, "NAME_EDUCATION_TYPE"))
        [] type = "family_status_distribution" -> Return(groupBy(data, "NAME_FAMILY_STATUS"))
        [] type = "default_by_gender" -> Return(calculateDefaultRateByCategory(data, "CODE_GENDER"))
        [] type = "default_by_education" ->
             Return(calculateDefaultRateByCategory(data, "NAME_EDUCATION_TYPE"))
        [] type = "default_by_housing" ->
             Return(calculateDefaultRateByCategory(data, "NAME_HOUSING_TYPE"))
        [] type = "housing_distribution" -> Return(groupBy(data, "NAME_HOUSING_TYPE"))
        [] OTHER -> Return(<<>>)

-----------------------------------------------------------------------------
(* Double-precision arithmetic on whole numbers *)

(* A JavaScript number that holds a whole number: a sign and the magnitude  *)
(* as limbs of 14 bits, lowest first.  A sum, difference or product is the  *)
(* exact result rounded to 53 significant bits, ties to even.  Magnitudes   *)
(* stay below 2^66 here.                                                    *)

Limb == 16384

LimbBits == 14

Limbs == 5

SignificandBits == 53

RECURSIVE Pow2(_)
Pow2(k) == IF k = 0 THEN 1 ELSE 2 * Pow2(k - 1)

RECURSIVE BitLength(_)
BitLength(x) == IF x = 0 THEN 0 ELSE 1 + BitLength(x \div 2)

\* propagate carries through limb values that may exceed a limb
RECURSIVE Carry(_, _)
Carry(s, c) ==
  IF Len(s) = 0 THEN <<>>
  ELSE <<(Head(s) + c) % Limb>> \o Carry(Tail(s), (Head(s) + c) \div Limb)

IsZeroMag(m) == \A i \in 1..Limbs : m[i] = 0

LessMag(a, b) == \E i \in 1..Limbs : a[i] < b[i] /\ \A j \in (i + 1)..Limbs : a[j] = b[j]

AddMag(a, b) == Carry([i \in 1..Limbs |-> a[i] + b[i]], 0)

\* a - b for a >= b
RECURSIVE Borrow(_, _, _)
Borrow(a, b, c) ==
  IF Len(a) = 0 THEN <<>>
  ELSE LET d == Head(a) - Head(b) - c
       IN  IF d < 0 THEN <<d + Limb>> \o Borrow(Tail(a), Tail(b), 1)
           ELSE <<d>> \o Borrow(Tail(a), Tail(b), 0)

SubMag(a, b) == Borrow(a, b, 0)

MulMag(a, b) ==
  Carry([k \in 1..Limbs |-> Sum([i \in 1..k |-> a[i] * b[k + 1 - i]])], 0)

\* the magnitude rounded to 53 significant bits, ties to even
Round53(m) ==
  IF IsZeroMag(m) THEN m
  ELSE LET top == CHOOSE t \in 1..Limbs : m[t] # 0 /\ \A u \in (t + 1)..Limbs : m[u] = 0
           bits == LimbBits * (top - 1) + BitLength(m[top])
           drop == bits - SignificandBits
           unit == Pow2(drop)
           kept == m[1] \div unit
           rest == m[1] % unit
           up == IF 2 * rest > unit \/ (2 * rest = unit /\ kept % 2 = 1) THEN 1 ELSE 0
       IN  IF drop <= 0 THEN m
           ELSE Carry([m EXCEPT ![1] = (kept + up) * unit], 0)

\* the number for a whole number below 2^31 in magnitude
Double(n) ==
  LET a == IF n < 0 THEN 0 - n ELSE n
  IN  [neg |-> n < 0,
       mag |-> <<a % Limb, (a \div Limb) % Limb, a \div (Limb * Limb), 0, 0>>]

Signum(x) == IF IsZeroMag(x.mag) THEN 0 ELSE IF x.neg THEN 0 - 1 ELSE 1

\* x + y
Plus(x, y) ==
  IF x.neg = y.neg THEN [neg |-> x.neg, mag |-> Round53(AddMag(x.mag, y.mag))]
  ELSE IF LessMag(x.mag, y.mag) THEN [neg |-> y.neg, mag |-> Round53(SubMag(y.mag, x.mag))]
  ELSE IF LessMag(y.mag, x.mag) THEN [neg |-> x.neg, mag |-> Round53(SubMag(x.mag, y.mag))]
  ELSE Double(0)

\* x - y
Minus(x, y) == Plus(x, [neg |-> ~y.neg, mag |-> y.mag])

\* x * y
Times(x, y) == [neg |-> x.neg # y.neg, mag |-> Round53(MulMag(x.mag, y.mag))]

\* values.reduce((sum, val) => sum + val, 0)
RECURSIVE Reduce(_)
Reduce(values) ==
  IF Len(values) = 0 THEN Double(0)
  ELSE Plus(Reduce(SubSeq(values, 1, Len(values) - 1)), values[Len(values)])

-----------------------------------------------------------------------------
(* Correlations *)

\* the result of 0 / 0, of Math.sqrt of a negative number, and of x / NaN
NaN == [nan |-> TRUE]

isNaN(x) == "nan" \in DOMAIN x

\* numerator / Math.sqrt(varX * varY) for a product above 0
Quotient(numerator, varX, varY) == [numerator |-> numerator, varX |-> varX, varY |-> varY]

\* calculateCorrelations' numericalFields
numericalFields ==
  {"AGE_YEARS", "EMPLOYMENT_YEARS", "AMT_INCOME_TOTAL", "AMT_CREDIT", "AMT_ANNUITY",
   "DTI", "LOAN_TO_INCOME", "CNT_CHILDREN", "CNT_FAM_MEMBERS", "TARGET"}

\* A record has a field when the property is not null or undefined.  The
\* denominator is Math.sqrt(varX * varY): NaN for a negative product, and then
\* denominator === 0 is false and numerator / NaN is NaN; 0 when a factor is 0.
calculatePearsonCorrelation(data, field1, field2) ==
  LET valid(r) == has(r, field1) /\ has(r, field2)
      pairs == SelectSeq(data, valid)
      n == Len(pairs)
      x(i) == Double(pairs[i][field1])
      y(i) == Double(pairs[i][field2])
      sumX == Reduce([i \in 1..n |-> x(i)])
      sumY == Reduce([i \in 1..n |-> y(i)])
      sumXY == Reduce([i \in 1..n |-> Times(x(i), y(i))])
      sumXX == Reduce([i \in 1..n |-> Times(x(i), x(i))])
      sumYY == Reduce([i \in 1..n |-> Times(y(i), y(i))])
      numerator == Minus(Times(Double(n), sumXY), Times(sumX, sumY))
      varX == Minus(Times(Double(n), sumXX), Times(sumX, sumX))
      varY == Minus(Times(Double(n), sumYY), Times(sumY, sumY))
  IN  IF n < 2 THEN Double(0)
      ELSE IF Signum(varX) * Signum(varY) < 0 THEN NaN
      ELSE IF Signum(varX) * Signum(varY) = 0 THEN Double(0)
      ELSE Quotient(numerator, varX, varY)

-----------------------------------------------------------------------------
(* Calls: the value a function returns and what it leaves in its arguments *)

\* data.filter builds a new array; the callback only reads the record and the spec
applyFiltersCall(data, f) ==
  [data |-> data, filters |-> f, result |-> applyFilters(data, f)]

\* calculateKPIs sorting data itself by income for the median
calculateKPIsCall_sortsData(data) ==
  LET before == {p \in (1..Len(data)) \X (1..Len(data)) :
                   data[p[1]].AMT_INCOME_TOTAL - data[p[2]].AMT_INCOME_TOTAL < 0}
  IN  [data |-> StableSort(data, before), result |-> calculateKPIs(data)]

\* data is read through filter, map, length and data[0]; median sorts a copy
calculateKPIsCall(data) ==
  [data |-> data, result |-> calculateKPIs(data)]

\* data is read through filter, map, reduce and length
prepareChartDataCall(data, type) ==
  [data |-> data, result |-> prepareChartData(data, type)]

-----------------------------------------------------------------------------
(* Inputs *)

\* Index's initial filter state, also what resetFilters restores
InitialFilters ==
  [gender |-> <<>>, education |-> <<>>, familyStatus |-> <<>>, housingType |-> <<>>,
   ageRange |-> <<18, 80>>, incomeBracket |-> "all", employmentRange |-> <<0, 40>>]

ActiveCount(f) ==
  (IF f.gender # InitialFilters.gender THEN 1 ELSE 0)
  + (IF f.education # InitialFilters.education THEN 1 ELSE 0)
  + (IF f.familyStatus # InitialFilters.familyStatus THEN 1 ELSE 0)
  + (IF f.housingType # InitialFilters.housingType THEN 1 ELSE 0)
  + (IF f.ageRange # InitialFilters.ageRange THEN 1 ELSE 0)
  + (IF f.incomeBracket # InitialFilters.incomeBracket THEN 1 ELSE 0)
  + (IF f.employmentRange # InitialFilters.employmentRange THEN 1 ELSE 0)

\* filter states the sidebar can produce, at most MaxActive dimensions constrained
FilterSpecs ==
  {f \in [gender : {<<>>, <<"M">>, <<"F", "XNA">>},
          education : {<<>>, <<"Higher education">>},
          familyStatus : {<<>>, <<"Married">>},
          housingType : {<<>>, <<"With parents">>},
          ageRange : {<<18, 80>>, <<42, 80>>, <<18, 42>>},
          incomeBracket : {"all", "low", "mid", "high"},
          employmentRange : {<<0, 40>>, <<1, 12>>, <<12, 40>>}] :
     ActiveCount(f) <= MaxActive}

\* a loaded batch is never empty: the generator is asked for 10000 records and
\* the uploader rejects a file without rows
Picks == UNION {[1..n -> 1..Len(RecordPool)] : n \in 1..MaxRecords}

\* the batches the application can hold: generated (derived fields and bracket
\* set) or uploaded (raw fields only); both pools have as many entries
Batches ==
  {generateCompleteDataset(p) : p \in Picks} \cup {processedData(p) : p \in Picks}

-----------------------------------------------------------------------------
(* State machine *)

\* DataUploader's useState values before any upload: not uploading, progress
\* 0, no error, no preview; no file is being parsed
UploaderIdle ==
  /\ uploading = FALSE
  /\ progress = 0
  /\ error = Null
  /\ preview = Null
  /\ parsing = {}

Init ==
  /\ rawData \in Batches
  /\ filters \in FilterSpecs
  /\ filteredData = rawData
  /\ op = <<"load">>
  /\ out = <<>>
  /\ UploaderIdle
  /\ effects = <<>>

\* Index's filter effect: applyFilters(rawData, filters) becomes filteredData
ApplyFilters ==
  /\ Len(rawData) > 0
  /\ LET call == applyFiltersCall(rawData, filters)
     IN  /\ rawData' = call.data
         /\ filters' = call.filters
         /\ filteredData' = call.result
         /\ out' = call.result
  /\ op' = <<"applyFilters">>
  /\ UNCHANGED pageVars

\* a page renders after a load or a filter run: calculateKPIs(data) on the
\* filtered collection
CalculateKPIs ==
  /\ op[1] \in {"load", "applyFilters"}
  /\ LET call == calculateKPIsCall(filteredData)
     IN  /\ filteredData' = call.data
         /\ out' = call.result
  /\ op' = <<"calculateKPIs">>
  /\ UNCHANGED <<rawData, filters, pageVars>>

\* a page renders after a load or a filter run: prepareChartData(data, type)
PrepareChartData ==
  \E type \in ChartTypes :
    /\ op[1] \in {"load", "applyFilters"}
    /\ LET call == prepareChartDataCall(filteredData, type)
       IN  /\ filteredData' = call.data
           /\ out' = call.result
    /\ op' = <<"prepareChartData", type>>
    /\ UNCHANGED <<rawData, filters, pageVars>>

Next == ApplyFilters \/ CalculateKPIs \/ PrepareChartData

Spec == Init /\ [][Next]_vars

-----------------------------------------------------------------------------
(* KPI specification: batches of up to MaxApplicants generated records, the  *)
(* first d of them defaulters                                                *)

KPIPicks(n, d) == [i \in 1..n |-> IF i <= d THEN 1 ELSE 2]

InitKPI ==
  /\ \E n \in 1..MaxApplicants : \E d \in 0..n :
       rawData = generateCompleteDataset(KPIPicks(n, d))
  /\ filters = InitialFilters
  /\ filteredData = rawData
  /\ op = <<"load">>
  /\ out = <<>>
  /\ UploaderIdle
  /\ effects = <<>>

NextKPI == CalculateKPIs

SpecKPI == InitKPI /\ [][NextKPI]_vars

-----------------------------------------------------------------------------
(* Statistics specification: mean, median and preprocessData applied to      *)
(* drawn inputs                                                              *)

StatValues == {0 - 2, 0, 1, 3}

ValueLists == UNION {[1..n -> StatValues] : n \in 0..MaxValues}

\* DAYS_EMPLOYED of raw records: the unemployed code, day counts of tenures up
\* to 25 years as the generator writes them, and a start date in the future
EmployedDays == {UnemployedCode, 0, 0 - 1, 0 - 183, 0 - 4383, 0 - 9131, 30}

RawInputs ==
  {[RecordPool[i] EXCEPT !.DAYS_EMPLOYED = d] : i \in 1..Len(RecordPool), d \in EmployedDays}

InitStats ==
  /\ rawData = <<>>
  /\ filters = InitialFilters
  /\ filteredData = <<>>
  /\ op = <<"idle">>
  /\ out = <<>>
  /\ UploaderIdle
  /\ effects = <<>>

Mean ==
  \E values \in ValueLists :
    /\ op[1] = "idle"
    /\ op' = <<"mean", values>>
    /\ out' = mean(values)
    /\ UNCHANGED <<rawData, filters, filteredData, pageVars>>

Median ==
  \E values \in ValueLists :
    /\ op[1] = "idle"
    /\ op' = <<"median", values>>
    /\ out' = median(values)
    /\ UNCHANGED <<rawData, filters, filteredData, pageVars>>

PreprocessData ==
  \E record \in RawInputs :
    /\ op[1] = "idle"
    /\ op' = <<"preprocessData", <<record>>>>
    /\ out' = preprocessData(<<record>>)
    /\ UNCHANGED <<rawData, filters, filteredData, pageVars>>

NextStats == Mean \/ Median \/ PreprocessData

SpecStats == InitStats /\ [][NextStats]_vars

-----------------------------------------------------------------------------
(* Correlation specification: calculatePearsonCorrelation over a batch and   *)
(* two of the numerical fields                                               *)

\* loans in a currency with large amounts
LargeCredits == {100000001, 200000004, 200000005}

\* the first two or three raw records of the pool with such credit amounts
LargeLoanBatches ==
  UNION {{[i \in 1..n |-> [RawBatch([k \in 1..n |-> k])[i] EXCEPT !.AMT_CREDIT = credits[i]]] :
            credits \in [1..n -> LargeCredits]} : n \in 2..3}

InitCorrelation ==
  /\ rawData \in Batches \cup LargeLoanBatches
  /\ filters = InitialFilters
  /\ filteredData = rawData
  /\ op = <<"load">>
  /\ out = <<>>
  /\ UploaderIdle
  /\ effects = <<>>

CalculatePearsonCorrelation ==
  \E field1, field2 \in numericalFields :
    /\ op[1] = "load"
    /\ op' = <<"calculatePearsonCorrelation", filteredData, field1, field2>>
    /\ out' = calculatePearsonCorrelation(filteredData, field1, field2)
    /\ UNCHANGED <<rawData, filters, filteredData, pageVars>>

NextCorrelation == CalculatePearsonCorrelation

SpecCorrelation == InitCorrelation /\ [][NextCorrelation]_vars

-----------------------------------------------------------------------------
(* Index page: loads, filter changes and resets, and the effects React runs   *)
(* after each render.  The effects of a render run, in the order they are     *)
(* written, before the next event is handled; an effect reads the rawData and *)
(* the filters of the render that scheduled it.                               *)

\* the state of the DataUploader
uploaderVars == <<uploading, progress, error, preview, parsing>>

\* the entries of the pools the loads of the page draw their records from
IndexPool == {1, 2, 3}

LoadPicks == UNION {[1..n -> IndexPool] : n \in 1..MaxRecords}

\* generateCompleteDataset(10000): the records are drawn afresh at every call
SampleData == {generateCompleteDataset(p) : p \in LoadPicks}

\* what an accepted file hands to onDataLoaded
UploadedData == {processedData(p) : p \in LoadPicks}

MountEffect == [effect |-> "mount"]

\* the filter effect as a render schedules it: it closes over the render's
\* rawData and filters
FilterEffectOf(raw, f) == [effect |-> "filter", rawData |-> raw, filters |-> f]

\* the dependency list of the filter effect with rawData left out
FilterEffectDue_filtersOnly(changed) == "filters" \in changed

\* the dependency list [rawData, filters]: the effect is due after a render in
\* which one of them changed
FilterEffectDue(changed) == changed \cap {"rawData", "filters"} # {}

\* the render that follows a state change: raw and f are the values rendered
Rerender(queue, changed, raw, f) ==
  IF FilterEffectDue(changed) THEN Append(queue, FilterEffectOf(raw, f)) ELSE queue

\* the "Filters applied" badge is rendered (the filter bar is shown on the pages
\* that use filters, once rawData is not empty)
BadgeShown == Len(rawData) # 0 /\ Len(filteredData) # Len(rawData)

\* the first render: empty collections, the initial filters, both effects due
InitIndex ==
  /\ rawData = <<>>
  /\ filteredData = <<>>
  /\ filters = InitialFilters
  /\ op = <<"render">>
  /\ out = <<>>
  /\ UploaderIdle
  /\ effects = <<MountEffect, FilterEffectOf(<<>>, InitialFilters)>>

\* the mount effect: sample data becomes rawData and filteredData
LoadOnMount ==
  \E sampleData \in SampleData :
    /\ effects # <<>>
    /\ Head(effects) = MountEffect
    /\ rawData' = sampleData
    /\ filteredData' = sampleData
    /\ effects' = Rerender(Tail(effects), {"rawData", "filteredData"}, sampleData, filters)
    /\ op' = <<"mount">>
    /\ out' = <<>>
    /\ UNCHANGED <<filters, uploaderVars>>

\* the filter effect
FilterEffect ==
  /\ effects # <<>>
  /\ Head(effects).effect = "filter"
  /\ LET scheduled == Head(effects)
     IN  IF Len(scheduled.rawData) > 0
         THEN LET filtered == applyFilters(scheduled.rawData, scheduled.filters)
              IN  /\ filteredData' = filtered
                  /\ out' = filtered
         ELSE UNCHANGED <<filteredData, out>>
  /\ effects' = Tail(effects)
  /\ op' = <<"filterEffect", op[1]>>
  /\ UNCHANGED <<rawData, filters, uploaderVars>>

\* handleDataLoaded(data)
HandleDataLoaded(data) ==
  /\ rawData' = data
  /\ effects' = Rerender(effects, {"rawData"}, data, filters)
  /\ UNCHANGED <<filters, filteredData>>

\* the DataUploader hands a batch over: sample data or the rows of a file
DataLoaded ==
  \E data \in SampleData \cup UploadedData :
    /\ effects = <<>>
    /\ HandleDataLoaded(data)
    /\ op' = <<"handleDataLoaded">>
    /\ out' = <<>>
    /\ UNCHANGED uploaderVars

\* onFiltersChange = setFilters: the sidebar hands over a new filter state
SetFilters ==
  \E f \in FilterSpecs :
    /\ effects = <<>>
    /\ filters' = f
    /\ effects' = Rerender(effects, {"filters"}, rawData, f)
    /\ op' = <<"setFilters">>
    /\ out' = <<>>
    /\ UNCHANGED <<rawData, filteredData, uploaderVars>>

\* resetFilters leaving the income bracket as it is
ResetFilters_keepsBracket ==
  /\ effects = <<>>
  /\ filters' = [InitialFilters EXCEPT !.incomeBracket = filters.incomeBracket]
  /\ effects' = Rerender(effects, {"filters"}, rawData, filters')
  /\ op' = <<"resetFilters">>
  /\ out' = <<>>
  /\ UNCHANGED <<rawData, filteredData, uploaderVars>>

\* resetFilters
ResetFilters ==
  /\ effects = <<>>
  /\ filters' = InitialFilters
  /\ effects' = Rerender(effects, {"filters"}, rawData, InitialFilters)
  /\ op' = <<"resetFilters">>
  /\ out' = <<>>
  /\ UNCHANGED <<rawData, filteredData, uploaderVars>>

NextIndex == LoadOnMount \/ FilterEffect \/ DataLoaded \/ SetFilters \/ ResetFilters

SpecIndex == InitIndex /\ [][NextIndex]_vars

-----------------------------------------------------------------------------
(* DataUploader on the data page of a mounted Index: file uploads (the        *)
(* handler and, later, Papa.parse's callback), sample loads, and the filter   *)
(* effect they schedule                                                       *)

\* most files Papa.parse is working on at a time
MaxParsing == 1

\* an error message and the detail it quotes
Message(text, detail) == [message |-> text, detail |-> detail]

\* the first five elements: array.slice(0, 5) as the preview state holds it
Slice5(array) == [rows |-> SubSeq(array, 1, Min(5, Len(array)))]

requiredColumns == {"TARGET", "CODE_GENDER", "DAYS_BIRTH", "AMT_INCOME_TOTAL", "AMT_CREDIT"}

\* the pool entries the uploader's files and sample batches draw from
UploaderPool == {1, 2}

UploaderPicks == UNION {[1..n -> UploaderPool] : n \in 1..MaxRecords}

\* A file as handleFileUpload meets it: whether its name ends in ".csv",
\* whether Papa.parse can read it, and what a parse with header: true yields:
\* the errors, the header's columns and the rows (a row holds its non-empty
\* cells).
CsvFile(csv, readable, errors, columns, data) ==
  [csv |-> csv, readable |-> readable, errors |-> errors, columns |-> columns, data |-> data]

Files ==
  {CsvFile(TRUE, TRUE, <<>>, UNION {DOMAIN UploadRows[p[i]] : i \in 1..Len(p)},
           [i \in 1..Len(p) |-> UploadRows[p[i]]]) : p \in UploaderPicks}
  \cup
  {\* well-formed rows in a file named otherwise
   CsvFile(FALSE, TRUE, <<>>, DOMAIN UploadRows[1], <<UploadRows[1]>>),
   \* a file the reader fails on
   CsvFile(TRUE, FALSE, <<>>, {}, <<>>),
   \* a row with too few fields
   CsvFile(TRUE, TRUE, <<"Too few fields">>, DOMAIN UploadRows[1],
           <<UploadRows[1], [TARGET |-> 0]>>),
   \* a header and no row
   CsvFile(TRUE, TRUE, <<>>, DOMAIN UploadRows[1], <<>>),
   \* no AMT_CREDIT column
   CsvFile(TRUE, TRUE, <<>>, DOMAIN UploadRows[1] \ {"AMT_CREDIT"},
           <<[c \in DOMAIN UploadRows[1] \ {"AMT_CREDIT"} |-> UploadRows[1][c]]>>)}

\* data.map((row, index) => ...)
processRows(data) == [i \in 1..Len(data) |-> convertRow(data[i], i - 1)]

\* the data page is opened on a mounted Index: sample data is loaded and shown
InitUploader ==
  /\ rawData \in {generateCompleteDataset(p) : p \in UploaderPicks}
  /\ filters = InitialFilters
  /\ filteredData = rawData
  /\ op = <<"render">>
  /\ out = <<>>
  /\ UploaderIdle
  /\ effects = <<>>

\* handleFileUpload(file) up to the call of Papa.parse, which returns at once
HandleFileUpload ==
  \E file \in Files :
    /\ effects = <<>>
    /\ progress' = 0
    /\ IF ~file.csv
       THEN /\ error' = Message("Please upload a CSV file", "")
            /\ uploading' = FALSE
            /\ UNCHANGED parsing
       ELSE /\ error' = Null
            /\ uploading' = TRUE
            /\ file \notin parsing
            /\ Cardinality(parsing) < MaxParsing
            /\ parsing' = parsing \cup {file}
    /\ op' = <<"handleFileUpload", file>>
    /\ out' = <<>>
    /\ UNCHANGED <<rawData, filters, filteredData, preview, effects>>

\* complete without the test for missing columns (a missing cell reads 0 here)
ParseComplete_unvalidated ==
  \E file \in parsing :
    /\ effects = <<>>
    /\ parsing' = parsing \ {file}
    /\ IF ~file.readable
       THEN /\ error' = Message("Failed to parse CSV", "")
            /\ uploading' = FALSE
            /\ UNCHANGED <<rawData, filters, filteredData, progress, preview, effects>>
       ELSE IF Len(file.errors) > 0
       THEN /\ error' = Message("CSV parsing error", file.errors[1])
            /\ UNCHANGED <<rawData, filters, filteredData, uploading, progress, preview, effects>>
       ELSE IF Len(file.data) = 0
       THEN /\ error' = Message("File appears to be empty", "")
            /\ UNCHANGED <<rawData, filters, filteredData, uploading, progress, preview, effects>>
       ELSE /\ preview' = Slice5(file.data)
            /\ progress' = 100
            /\ uploading' = FALSE
            /\ HandleDataLoaded(processRows(
                 [i \in 1..Len(file.data) |->
                    [c \in DOMAIN file.data[i] \cup requiredColumns |->
                       IF c \in DOMAIN file.data[i] THEN file.data[i][c] ELSE 0]]))
            /\ UNCHANGED error
    /\ op' = <<"parseComplete", file>>
    /\ out' = <<>>

\* Papa.parse calls back: error when the file cannot be read, complete with
\* the results otherwise
ParseComplete ==
  \E file \in parsing :
    /\ effects = <<>>
    /\ parsing' = parsing \ {file}
    /\ IF ~file.readable
       THEN /\ error' = Message("Failed to parse CSV", "")
            /\ uploading' = FALSE
            /\ UNCHANGED <<rawData, filters, filteredData, progress, preview, effects>>
       ELSE IF Len(file.errors) > 0
       THEN /\ error' = Message("CSV parsing error", file.errors[1])
            /\ UNCHANGED <<rawData, filters, filteredData, uploading, progress, preview, effects>>
       ELSE IF Len(file.data) = 0
       THEN /\ error' = Message("File appears to be empty", "")
            /\ UNCHANGED <<rawData, filters, filteredData, uploading, progress, preview, effects>>
       ELSE IF requiredColumns \ file.columns # {}
       THEN /\ error' = Message("Missing required columns", requiredColumns \ file.columns)
            /\ UNCHANGED <<rawData, filters, filteredData, uploading, progress, preview, effects>>
       ELSE /\ preview' = Slice5(file.data)
            /\ progress' = 100
            /\ uploading' = FALSE
            /\ HandleDataLoaded(processRows(file.data))
            /\ UNCHANGED error
    /\ op' = <<"parseComplete", file>>
    /\ out' = <<>>

\* loadSampleData
LoadSampleData ==
  \E sampleData \in {generateCompleteDataset(p) : p \in UploaderPicks} :
    /\ effects = <<>>
    /\ HandleDataLoaded(sampleData)
    /\ preview' = Slice5(sampleData)
    /\ op' = <<"loadSampleData">>
    /\ out' = <<>>
    /\ UNCHANGED <<uploading, progress, error, parsing>>

NextUploader == HandleFileUpload \/ ParseComplete \/ LoadSampleData \/ FilterEffect

SpecUploader == InitUploader /\ [][NextUploader]_vars

-----------------------------------------------------------------------------
(* Generator specification: the generator's functions applied to drawn        *)
(* inputs, and generateCompleteDataset run again and again                    *)

\* longest collection handed to addIncomeBrackets
MaxBracketed == 4

\* Math.random() values, in thousandths
UnitDraws == {0, 26, 27, 499, 500, 999}

\* profiles on both sides of every threshold of getDefaultRiskByProfile
ProfileAges == {24, 25, 34, 35, 65, 66}

ProfileIncomes == {99999, 100000, 199999, 200000, 500000, 500001}

educationTypes ==
  {"Secondary / secondary special", "Higher education", "Incomplete higher",
   "Lower secondary", "Academic degree"}

\* tenths of a year; -10 is the draw of -1 for an unemployed applicant
ProfileEmployments == {0 - 10, 9, 10, 100, 101, 249}

\* incomes the generator can draw for the second applicant of the pool
BracketIncomes == {90000, 150000, 225000, 300000}

\* processed collections of up to MaxBracketed records, as preprocessData
\* hands them to addIncomeBrackets
BracketInputs ==
  UNION {{preprocessData([i \in 1..n |->
                            [RecordPool[2] EXCEPT !.SK_ID_CURR = 100000 + (i - 1),
                                                  !.AMT_INCOME_TOTAL = incomes[i]]]) :
            incomes \in [1..n -> BracketIncomes]} : n \in 1..MaxBracketed}

InitGenerator ==
  /\ rawData = <<>>
  /\ filters = InitialFilters
  /\ filteredData = <<>>
  /\ op = <<"idle">>
  /\ out = <<>>
  /\ UploaderIdle
  /\ effects = <<>>

RandomAge ==
  \E r1, r2 \in UnitDraws :
    /\ op[1] = "idle"
    /\ ageAccepted(r1, r2)
    /\ op' = <<"randomAge", r1, r2>>
    /\ out' = randomAge(r1, r2)
    /\ UNCHANGED <<rawData, filters, filteredData, pageVars>>

\* the risk of a profile and the TARGET drawn with it
GetDefaultRiskByProfile ==
  \E age \in ProfileAges, income \in ProfileIncomes, education \in educationTypes,
     employment \in ProfileEmployments, draw \in UnitDraws :
    /\ op[1] = "idle"
    /\ op' = <<"getDefaultRiskByProfile", age, income, education, employment, draw>>
    /\ LET defaultRisk == getDefaultRiskByProfile(age, income, education, employment)
       IN  out' = [defaultRisk |-> defaultRisk, target |-> drawTarget(draw, defaultRisk)]
    /\ UNCHANGED <<rawData, filters, filteredData, pageVars>>

AddIncomeBrackets ==
  \E records \in BracketInputs :
    /\ op[1] = "idle"
    /\ op' = <<"addIncomeBrackets", records>>
    /\ out' = addIncomeBrackets(records)
    /\ UNCHANGED <<rawData, filters, filteredData, pageVars>>

\* generateCompleteDataset(numRecords): the only argument is the count, the
\* records come from Math.random()
GenerateCompleteDataset ==
  \E numRecords \in 1..MaxRecords :
    \E picks \in [1..numRecords -> 1..Len(RecordPool)] :
      /\ op[1] \in {"idle", "generateCompleteDataset"}
      /\ op' = <<"generateCompleteDataset", numRecords>>
      /\ out' = generateCompleteDataset(picks)
      /\ UNCHANGED <<rawData, filters, filteredData, pageVars>>

NextGenerator ==
  RandomAge \/ GetDefaultRiskByProfile \/ AddIncomeBrackets \/ GenerateCompleteDataset

SpecGenerator == InitGenerator /\ [][NextGenerator]_vars

-----------------------------------------------------------------------------
(* Properties of the filter engine *)

IsSubsequence(sub, full) ==
  \E idx \in [1..Len(sub) -> 1..Len(full)] :
    /\ \A i, j \in 1..Len(sub) : i < j => idx[i] < idx[j]
    /\ \A i \in 1..Len(sub) : sub[i] = full[idx[i]]

\* C1: what applyFilters returns is a subsequence of its input: the returned
\* records are records of the input, each taken once, in their original order.
C1_Subsequence ==
  op[1] = "applyFilters" => IsSubsequence(out, rawData)

\* a constrained filter kept two records of the batch
C1_Witness ==
  /\ op[1] = "applyFilters"
  /\ ActiveCount(filters) > 0
  /\ Len(out) >= 2

\* C2: with the four lists empty, the bracket "all" and the ranges at their
\* bounds [18, 80] and [0, 40], applyFilters returns its input unchanged.
C2_Identity ==
  (op[1] = "applyFilters" /\ filters = InitialFilters) => out = rawData

\* the unconstrained filter ran over a generated batch that holds the youngest
\* and the oldest applicant of the pool, and kept every record
C2_Witness ==
  /\ op[1] = "applyFilters"
  /\ filters = InitialFilters
  /\ \E i, j \in 1..Len(rawData) :
       /\ truthy(rawData[i], "AGE_YEARS") /\ rawData[i].AGE_YEARS = 540
       /\ truthy(rawData[j], "AGE_YEARS") /\ rawData[j].AGE_YEARS = 300
  /\ Len(out) = Len(rawData)

CategoryDims == {"gender", "education", "familyStatus", "housingType"}

CategoryField(dim) ==
  CASE dim = "gender" -> "CODE_GENDER"
    [] dim = "education" -> "NAME_EDUCATION_TYPE"
    [] dim = "familyStatus" -> "NAME_FAMILY_STATUS"
    [] dim = "housingType" -> "NAME_HOUSING_TYPE"

\* C3: for each of the four categorical constraints, a non-empty list lets
\* through only records whose value is in the list, and an empty list
\* excludes no record: a record that would be kept with its own value
\* selected is kept.
C3_Categorical ==
  op[1] = "applyFilters" =>
    \A dim \in CategoryDims :
      /\ Len(filters[dim]) > 0 =>
           \A i \in 1..Len(out) : includes(filters[dim], out[i][CategoryField(dim)])
      /\ Len(filters[dim]) = 0 =>
           \A i \in 1..Len(rawData) :
             FilterKeeps(rawData[i],
                         [filters EXCEPT ![dim] = <<rawData[i][CategoryField(dim)]>>])
               => rawData[i] \in Range(out)

\* a gender list dropped a record while the empty education list dropped none
C3_Witness ==
  /\ op[1] = "applyFilters"
  /\ Len(filters.gender) > 0
  /\ Len(filters.education) = 0
  /\ Len(out) >= 1
  /\ Len(out) < Len(rawData)
  /\ \E i \in 1..Len(rawData) : ~includes(filters.gender, rawData[i].CODE_GENDER)

AgeInRange(record, f) ==
  /\ 10 * f.ageRange[1] <= record.AGE_YEARS
  /\ record.AGE_YEARS <= 10 * f.ageRange[2]

\* C4: a record with a derived age passes the age predicate exactly when
\* lo <= AGE_YEARS <= hi, both bounds included; a record without a derived
\* age passes it for every range; no kept record fails it.
C4_AgePredicate ==
  op[1] = "applyFilters" =>
    \A i \in 1..Len(rawData) :
      LET r == rawData[i] IN
        /\ has(r, "AGE_YEARS") => (AgePass(r, filters) <=> AgeInRange(r, filters))
        /\ ~has(r, "AGE_YEARS") => AgePass(r, filters)
        /\ r \in Range(out) => AgePass(r, filters)
        /\ (has(r, "AGE_YEARS") /\ ~AgeInRange(r, filters)) => r \notin Range(out)

\* a narrowed age range kept a record whose age sits on its lower bound and
\* dropped one outside it
C4_Witness ==
  /\ op[1] = "applyFilters"
  /\ filters.ageRange # InitialFilters.ageRange
  /\ \E i \in 1..Len(out) :
       has(out[i], "AGE_YEARS") /\ out[i].AGE_YEARS = 10 * filters.ageRange[1]
  /\ \E i \in 1..Len(rawData) :
       has(rawData[i], "AGE_YEARS") /\ ~AgeInRange(rawData[i], filters)

\* the age predicate let a record without a derived age through a narrowed range
C4_WitnessNoAge ==
  /\ op[1] = "applyFilters"
  /\ filters.ageRange # InitialFilters.ageRange
  /\ \E i \in 1..Len(out) : ~has(out[i], "AGE_YEARS")

EmploymentInRange(record, f) ==
  /\ 10 * f.employmentRange[1] <= record.EMPLOYMENT_YEARS
  /\ record.EMPLOYMENT_YEARS <= 10 * f.employmentRange[2]

\* C5: a record whose employment years are zero or absent passes the
\* employment predicate for every range, also one with lo > 0; a record with
\* positive employment years passes exactly when lo <= EMPLOYMENT_YEARS <= hi.
C5_EmploymentPredicate ==
  op[1] = "applyFilters" =>
    \A i \in 1..Len(rawData) :
      LET r == rawData[i] IN
        /\ (~has(r, "EMPLOYMENT_YEARS") \/ r.EMPLOYMENT_YEARS = 0) => EmploymentPass(r, filters)
        /\ (has(r, "EMPLOYMENT_YEARS") /\ r.EMPLOYMENT_YEARS > 0) =>
             (EmploymentPass(r, filters) <=> EmploymentInRange(r, filters))
        /\ r \in Range(out) => EmploymentPass(r, filters)
        /\ (has(r, "EMPLOYMENT_YEARS") /\ r.EMPLOYMENT_YEARS > 0 /\ ~EmploymentInRange(r, filters))
             => r \notin Range(out)

\* a range with lo > 0 kept an unemployed applicant (zero years) and dropped
\* one with positive years outside the range
C5_Witness ==
  /\ op[1] = "applyFilters"
  /\ filters.employmentRange[1] > 0
  /\ \E i \in 1..Len(out) : has(out[i], "EMPLOYMENT_YEARS") /\ out[i].EMPLOYMENT_YEARS = 0
  /\ \E i \in 1..Len(rawData) :
       /\ has(rawData[i], "EMPLOYMENT_YEARS")
       /\ rawData[i].EMPLOYMENT_YEARS > 0
       /\ ~EmploymentInRange(rawData[i], filters)

-----------------------------------------------------------------------------
(* Properties of the KPI aggregator and of the histogram *)

\* C7: for an empty collection calculateKPIs returns a summary that holds every
\* named metric (with a zero or placeholder value).
C7_EmptySummaryHasMetrics ==
  (op[1] = "calculateKPIs" /\ Len(filteredData) = 0) => KPIKeys \subseteq DOMAIN out

\* the values prepareChartData hands to createBins
BinValues(data, type) ==
  IF type = "age_distribution"
  THEN LET hasAge(r) == truthy(r, "AGE_YEARS") IN Field(SelectSeq(data, hasAge), "AGE_YEARS")
  ELSE Field(data, "AMT_INCOME_TOTAL")

IsHistogram == op[1] = "prepareChartData" /\ op[2] \in {"age_distribution", "income_distribution"}

AllEqual(values) == \A i, j \in 1..Len(values) : values[i] = values[j]

CountsOf(bins) == Sum([i \in 1..Len(bins) |-> bins[i].count])

\* C8: when all values are identical (also for a single record) createBins
\* does not fail and counts every value.
C8_DegenerateBins ==
  (IsHistogram /\ Len(BinValues(filteredData, op[2])) > 0 /\ AllEqual(BinValues(filteredData, op[2])))
    => (~out.threw /\ CountsOf(out.value) = Len(BinValues(filteredData, op[2])))

\* C9: the bin counts sum to the number of values, and the largest value is
\* counted in the last bin.
C9_BinCounts ==
  IsHistogram =>
    LET values == BinValues(filteredData, op[2]) IN
      /\ ~out.threw
      /\ CountsOf(out.value) = Len(values)
      /\ Len(values) > 0 =>
           out.value[Len(out.value)].count >=
             Cardinality({j \in 1..Len(values) : \A k \in 1..Len(values) : values[k] <= values[j]})

\* C10: for a non-empty collection totalApplicants is the number of records,
\* totalDefaults the number with TARGET = 1, defaultRate is
\* 100 * totalDefaults / totalApplicants to 2 decimals, and
\* defaultRate + repaidRate = 100.
C10_Rates ==
  (op[1] = "calculateKPIs" /\ Len(filteredData) > 0) =>
    LET n == Len(filteredData)
        d == Cardinality({i \in 1..n : filteredData[i].TARGET = 1})
    IN  /\ out.totalApplicants = n
        /\ out.totalDefaults = d
        /\ out.totalDefaults <= out.totalApplicants
        /\ out.defaultRate = RoundDiv(10000 * d, n)
        /\ out.defaultRate + out.repaidRate = 10000

Abs(x) == IF x >= 0 THEN x ELSE 0 - x

\* the incomes of the records whose TARGET is t
SegmentIncomes(data, t) ==
  LET inSegment(r) == r.TARGET = t IN Field(SelectSeq(data, inSegment), "AMT_INCOME_TOTAL")

\* g is num / den rounded to whole units (den > 0)
IsRounded(g, num, den) == 2 * Abs(g * den - num) <= den

C11_WitnessEmptySegment ==
  /\ op[1] = "calculateKPIs"
  /\ Len(filteredData) > 0
  /\ Len(SegmentIncomes(filteredData, 0)) = 0
  /\ out.incomeGap < 0

\* C12: avgAnnuity is the mean of AMT_ANNUITY over all records of the
\* collection, in whole units.
C12_AvgAnnuity ==
  (op[1] = "calculateKPIs" /\ Len(filteredData) > 0) =>
    IsRounded(out.avgAnnuity, Sum(Field(filteredData, "AMT_ANNUITY")), Len(filteredData))

\* avgCredit and avgIncome are means over all records (the comparison C12 draws)
C12_CreditAndIncomeOverAll ==
  (op[1] = "calculateKPIs" /\ Len(filteredData) > 0) =>
    /\ IsRounded(out.avgCredit, Sum(Field(filteredData, "AMT_CREDIT")), Len(filteredData))
    /\ IsRounded(out.avgIncome, Sum(Field(filteredData, "AMT_INCOME_TOTAL")), Len(filteredData))

-----------------------------------------------------------------------------
(* Properties of the categorical charts *)

GroupField(type) ==
  CASE type \in {"gender_distribution", "default_by_gender"} -> "CODE_GENDER"
    [] type \in {"education_distribution", "default_by_education"} -> "NAME_EDUCATION_TYPE"
    [] type = "family_status_distribution" -> "NAME_FAMILY_STATUS"
    [] type \in {"housing_distribution", "default_by_housing"} -> "NAME_HOUSING_TYPE"

\* prepareChartData returned what groupBy returned (gender_distribution
\* renames the keys, so it is left to IsCount)
IsGroupBy ==
  /\ op[1] = "prepareChartData"
  /\ op[2] \in {"education_distribution", "family_status_distribution", "housing_distribution"}

IsCount == IsGroupBy \/ (op[1] = "prepareChartData" /\ op[2] = "gender_distribution")

IsDefaultRate ==
  /\ op[1] = "prepareChartData"
  /\ op[2] \in {"default_by_gender", "default_by_education", "default_by_housing"}

\* the values of the grouped field, record by record
Grouped == Field(filteredData, GroupField(op[2]))

FirstIndex(values, v) == CHOOSE i \in 1..Len(values) : values[i] = v /\ \A j \in 1..(i - 1) : values[j] # v

\* C13: groupBy over a field with k distinct values returns exactly k pairs,
\* one per distinct value, and the counts of the pairs sum to the input size.
C13_GroupPairs ==
  /\ IsCount =>
       /\ Len(out.value) = Cardinality(Range(Grouped))
       /\ Sum([i \in 1..Len(out.value) |-> out.value[i].value]) = Len(filteredData)
  /\ IsGroupBy =>
       /\ {out.value[i].key : i \in 1..Len(out.value)} = Range(Grouped)
       /\ \A i \in 1..Len(out.value) :
            out.value[i].count = Cardinality({j \in 1..Len(Grouped) : Grouped[j] = out.value[i].key})

\* C14: the pairs of groupBy are in descending order of count, and pairs with
\* equal counts are in the order in which their values first occur in the input.
C14_GroupOrder ==
  IsGroupBy =>
    \A i, j \in 1..Len(out.value) :
      i < j =>
        /\ out.value[i].count >= out.value[j].count
        /\ out.value[i].count = out.value[j].count =>
             FirstIndex(Grouped, out.value[i].key) < FirstIndex(Grouped, out.value[j].key)

\* C15: calculateDefaultRateByCategory emits exactly one entry per category
\* value of the input, each over at least one record and with defaultRate =
\* 100 * defaults / total for the category's records, in descending order of
\* rate; when every record has TARGET = 1 every rate is 100.
C15_DefaultRates ==
  IsDefaultRate =>
    LET entries == out.value
        members(c) == {j \in 1..Len(Grouped) : Grouped[j] = c}
        defaulted(c) == {j \in members(c) : filteredData[j].TARGET = 1}
    IN  /\ Len(entries) = Cardinality(Range(Grouped))
        /\ {entries[i].category : i \in 1..Len(entries)} = Range(Grouped)
        /\ \A i \in 1..Len(entries) :
             /\ entries[i].total = Cardinality(members(entries[i].category))
             /\ entries[i].total > 0
             /\ entries[i].defaults = Cardinality(defaulted(entries[i].category))
             /\ entries[i].defaultRate.num * entries[i].total
                  = 100 * entries[i].defaults * entries[i].defaultRate.den
        /\ \A i, j \in 1..Len(entries) :
             i < j => entries[i].defaultRate.num * entries[j].defaultRate.den
                        >= entries[j].defaultRate.num * entries[i].defaultRate.den
        /\ (\A j \in 1..Len(filteredData) : filteredData[j].TARGET = 1) =>
             \A i \in 1..Len(entries) :
               entries[i].defaultRate.num = 100 * entries[i].defaultRate.den

-----------------------------------------------------------------------------
(* Properties of the statistics library and of the feature deriver *)

IsNumber(x) == DOMAIN x = {"num", "den"} /\ x.den > 0

\* C16: mean and median return the "no value" sentinel exactly when the input
\* is empty; for a non-empty input they return a number.
C16_NullIffEmpty ==
  op[1] \in {"mean", "median"} =>
    /\ isNull(out) <=> Len(op[2]) = 0
    /\ Len(op[2]) > 0 => IsNumber(out)

\* mean of the empty list was asked for
C16_Witness ==
  /\ op[1] = "mean"
  /\ Len(op[2]) = 0
  /\ isNull(out)

\* v is the k-th smallest of the values (k counted from 1)
IsKthSmallest(v, k, values) ==
  /\ v \in Range(values)
  /\ Cardinality({i \in 1..Len(values) : values[i] < v}) <= k - 1
  /\ Cardinality({i \in 1..Len(values) : values[i] <= v}) >= k

\* C17: for a non-empty list in any order, median is the middle element of the
\* values in ascending order when their number is odd, and the average of the
\* two middle elements when it is even; only the values and how often each
\* occurs enter the result, not their order.
C17_Median ==
  (op[1] = "median" /\ Len(op[2]) > 0) =>
    LET values == op[2]
        n == Len(values)
    IN  IF n % 2 = 1
        THEN \E v \in Range(values) :
               /\ IsKthSmallest(v, (n + 1) \div 2, values)
               /\ out.num = v * out.den
        ELSE \E a, b \in Range(values) :
               /\ IsKthSmallest(a, n \div 2, values)
               /\ IsKthSmallest(b, n \div 2 + 1, values)
               /\ 2 * out.num = (a + b) * out.den

\* the median of an even number of values given in descending order, with two
\* different middle elements
C17_Witness ==
  /\ op[1] = "median"
  /\ Len(op[2]) = 2
  /\ op[2][1] > op[2][2]
  /\ 2 * out.num = (op[2][1] + op[2][2]) * out.den

\* the records of a calculatePearsonCorrelation call that have both fields
ValidPairs ==
  LET valid(r) == has(r, op[3]) /\ has(r, op[4]) IN SelectSeq(op[2], valid)

Constant(records, field) == \A i, j \in 1..Len(records) : records[i][field] = records[j][field]

\* C18: calculatePearsonCorrelation returns 0 when fewer than 2 records have
\* both fields and when either field is constant over the records that have
\* both; it never returns NaN.
C18_ZeroGuards ==
  op[1] = "calculatePearsonCorrelation" =>
    /\ Len(ValidPairs) < 2 => out = Double(0)
    /\ (Constant(ValidPairs, op[3]) \/ Constant(ValidPairs, op[4])) => out = Double(0)
    /\ ~isNaN(out)

\* C19: preprocessData gives every raw record EMPLOYMENT_YEARS >= 0, and a
\* record whose DAYS_EMPLOYED is the unemployed code gets EMPLOYMENT_YEARS = 0.
C19_EmploymentYears ==
  op[1] = "preprocessData" =>
    \A i \in 1..Len(out) :
      /\ out[i].EMPLOYMENT_YEARS >= 0
      /\ op[2][i].DAYS_EMPLOYED = UnemployedCode => out[i].EMPLOYMENT_YEARS = 0

\* a record with the unemployed code went through preprocessData
C19_Witness ==
  /\ op[1] = "preprocessData"
  /\ op[2][1].DAYS_EMPLOYED = UnemployedCode
  /\ out[1].EMPLOYMENT_YEARS = 0

\* C19 for the batches the application generates: the derived tenure of every
\* generated record is within 0 .. 25 years
C19_GeneratedTenure ==
  \A i \in 1..Len(rawData) :
    has(rawData[i], "EMPLOYMENT_YEARS") =>
      (rawData[i].EMPLOYMENT_YEARS >= 0 /\ rawData[i].EMPLOYMENT_YEARS <= 250)

-----------------------------------------------------------------------------
(* Properties of the record lifecycle *)

\* the Feature Deriver has populated the record
Enriched(record) ==
  /\ \A f \in DerivedFields : has(record, f)
  /\ has(record, "INCOME_BRACKET")

\* C20: every record handed to applyFilters, calculateKPIs and
\* prepareChartData has been enriched by the Feature Deriver, whether the
\* batch was generated or uploaded.
C20_UploadEnriched ==
  /\ op[1] = "applyFilters" => \A i \in 1..Len(rawData) : Enriched(rawData[i])
  /\ op[1] \in {"calculateKPIs", "prepareChartData"} =>
       \A i \in 1..Len(filteredData) : Enriched(filteredData[i])

-----------------------------------------------------------------------------
(* Properties of the Index page *)

\* the bracket a record carries; an uploaded record carries none
BracketOf(record) ==
  IF has(record, "INCOME_BRACKET") THEN record.INCOME_BRACKET ELSE "undefined"

\* C21: a record's INCOME_BRACKET is assigned when its batch is loaded and is
\* never recomputed by filtering: through every sequence of loads, filter
\* changes and resets, once the effects have run, each record of the filtered
\* collection is a record of the unfiltered batch with the bracket it has there
C21_BracketStable ==
  effects = <<>> =>
    \A i \in 1..Len(filteredData) :
      \E j \in 1..Len(rawData) :
        /\ rawData[j].SK_ID_CURR = filteredData[i].SK_ID_CURR
        /\ BracketOf(rawData[j]) = BracketOf(filteredData[i])

\* a filter change has left a proper, non-empty part of a generated batch whose
\* own quartiles would label one of its records differently
C21_Witness ==
  /\ effects = <<>>
  /\ op[1] = "filterEffect"
  /\ filters # InitialFilters
  /\ Len(filteredData) > 0
  /\ Len(filteredData) < Len(rawData)
  /\ has(filteredData[1], "INCOME_BRACKET")
  /\ addIncomeBrackets(filteredData) # filteredData

\* C27: after any sequence of data loads, filter changes and resets, once the
\* pending effects have run, filteredData is applyFilters(rawData, filters)
\* for the current rawData and the current filters
C27_Settled ==
  effects = <<>> => filteredData = applyFilters(rawData, filters)

\* an uploaded batch replaced the data while a filter was set; the effect ran
\* on the new batch and kept a part of it
C27_Witness ==
  /\ effects = <<>>
  /\ op = <<"filterEffect", "handleDataLoaded">>
  /\ filters # InitialFilters
  /\ ~has(rawData[1], "AGE_YEARS")
  /\ Len(filteredData) > 0
  /\ Len(filteredData) < Len(rawData)

\* C28: resetFilters restores the initial filter state, and with that state,
\* once the filter effect has run, every record of the loaded batch, generated
\* or uploaded, is shown: filteredData is as long as rawData and the "Filters
\* applied" badge is not rendered
C28_ResetShowsAll ==
  /\ op = <<"resetFilters">> => filters = InitialFilters
  /\ (filters = InitialFilters /\ effects = <<>>) =>
       /\ Len(filteredData) = Len(rawData)
       /\ ~BadgeShown

\* a reset followed a filter state, and the effect it scheduled has run over an
\* uploaded batch of several records
C28_Witness ==
  /\ op = <<"filterEffect", "resetFilters">>
  /\ effects = <<>>
  /\ filters = InitialFilters
  /\ Len(rawData) >= 2
  /\ ~has(rawData[1], "AGE_YEARS")
  /\ filteredData = rawData

\* the same over a generated batch that holds the oldest applicant of the pool
C28_WitnessGenerated ==
  /\ op = <<"filterEffect", "resetFilters">>
  /\ effects = <<>>
  /\ filters = InitialFilters
  /\ \E i \in 1..Len(rawData) : truthy(rawData[i], "AGE_YEARS") /\ rawData[i].AGE_YEARS = 540
  /\ filteredData = rawData

\* the ages randomAge yields lie within the initial age range
C28_GeneratedAges ==
  op[1] = "randomAge" =>
    /\ out >= 30 /\ out <= 54
    /\ out >= InitialFilters.ageRange[1] /\ out <= InitialFilters.ageRange[2]

-----------------------------------------------------------------------------
(* Properties of the DataUploader *)

\* the file is turned away: not a CSV by name, no rows, or a required column
\* missing
Rejected(file) ==
  \/ ~file.csv
  \/ Len(file.data) = 0
  \/ requiredColumns \ file.columns # {}

\* C23: rows are handed to the application only after the five required
\* columns were found: an upload of a file that is not a CSV, has no rows or
\* lacks a required column records an error, does not call onDataLoaded and
\* leaves the loaded data in place; when an upload does replace the data, the
\* file has all five columns and the data are its converted rows
C23_Validated ==
  [][\A file \in Files :
       /\ (op' = <<"handleFileUpload", file>> /\ ~file.csv) =>
            /\ error' # Null
            /\ parsing' = parsing
            /\ UNCHANGED <<rawData, filteredData, effects>>
       /\ (op' = <<"parseComplete", file>> /\ Rejected(file)) =>
            /\ error' # Null
            /\ UNCHANGED <<rawData, filteredData, effects>>
       /\ (op' = <<"parseComplete", file>> /\ (rawData' # rawData \/ effects' # effects)) =>
            /\ ~Rejected(file)
            /\ rawData' = processRows(file.data)
    ]_vars

\* the parse of a file without an AMT_CREDIT column has come back: the error
\* names the column and the sample data loaded before is still shown
C23_Witness ==
  /\ op[1] = "parseComplete"
  /\ requiredColumns \ op[2].columns = {"AMT_CREDIT"}
  /\ error = Message("Missing required columns", {"AMT_CREDIT"})
  /\ Len(rawData) > 0
  /\ has(rawData[1], "INCOME_BRACKET")
  /\ filteredData = rawData
  /\ effects = <<>>

\* C29: every upload attempt leaves the uploading state: once handleFileUpload
\* has finished (with loaded data, a parse error, an empty file, missing
\* columns or a wrong file type) and no other file is being parsed, uploading
\* is false
C29_UploadingCleared ==
  (/\ \/ op[1] = "parseComplete"
      \/ (op[1] = "handleFileUpload" /\ ~op[2].csv)
   /\ parsing = {}) =>
    uploading = FALSE

\* the part of C29 that holds: after an accepted file, an unreadable file or a
\* file of the wrong type, uploading is false
C29_ClearedOnSomePaths ==
  (/\ op[1] \in {"parseComplete", "handleFileUpload"}
   /\ parsing = {}
   /\ \/ ~op[2].csv
      \/ ~op[2].readable
      \/ (Len(op[2].errors) = 0 /\ ~Rejected(op[2]))) =>
    uploading = FALSE

\* C30: the error and the success preview are never set together
C30_ErrorXorPreview ==
  ~(error # Null /\ preview # Null)

-----------------------------------------------------------------------------
(* Properties of the generator *)

\* C22: generation is reproducible: generateCompleteDataset returns as many
\* records as asked for, and of two runs with the same arguments the second
\* returns the record sequence of the first (the same TARGET sequence in
\* particular)
C22_Reproducible ==
  [][(op[1] = "generateCompleteDataset" /\ op' = op) =>
       /\ Len(out') = op'[2]
       /\ out' = out]_vars

\* the part of C22 that holds: a run returns exactly numRecords records
C22_CountReturned ==
  op[1] = "generateCompleteDataset" => Len(out) = op[2]

\* the label of an income against the two quartile values, Low tested first
LabelOf(income, q1, q3) ==
  IF income <= q1 THEN "Low" ELSE IF income >= q3 THEN "High" ELSE "Mid"

\* C24: addIncomeBrackets takes Q1 and Q3 as the elements at the 0-based
\* positions floor(n * 0.25) and floor(n * 0.75) of the collection's incomes
\* in ascending order (no interpolation) and gives every record, otherwise
\* unchanged, exactly one label: Low if its income is <= Q1, else High if it
\* is >= Q3, else Mid
C24_Quartiles ==
  op[1] = "addIncomeBrackets" =>
    LET records == op[2]
        n == Len(records)
        incomes == [i \in 1..n |-> records[i].AMT_INCOME_TOTAL]
    IN  /\ Len(out) = n
        /\ \E q1, q3 \in Range(incomes) :
             /\ IsKthSmallest(q1, (n \div 4) + 1, incomes)
             /\ IsKthSmallest(q3, ((3 * n) \div 4) + 1, incomes)
             /\ \A i \in 1..n :
                  /\ out[i].INCOME_BRACKET = LabelOf(incomes[i], q1, q3)
                  /\ out[i].INCOME_BRACKET \in {"Low", "Mid", "High"}
                  /\ DOMAIN out[i] = DOMAIN records[i] \cup {"INCOME_BRACKET"}
                  /\ \A f \in DOMAIN records[i] : out[i][f] = records[i][f]

\* four records with three different incomes were labelled: all three labels
\* occur, and Q1 is not the smallest income
C24_Witness ==
  /\ op[1] = "addIncomeBrackets"
  /\ Len(op[2]) = 4
  /\ {out[i].INCOME_BRACKET : i \in 1..Len(out)} = {"Low", "Mid", "High"}
  /\ \E i, j \in 1..Len(out) :
       /\ out[i].INCOME_BRACKET = "Low"
       /\ out[j].INCOME_BRACKET = "Low"
       /\ out[i].AMT_INCOME_TOTAL < out[j].AMT_INCOME_TOTAL

\* the records of a collection whose SK_ID_CURR is among ids, in their order
Subcollection(records, ids) ==
  LET among(record) == record.SK_ID_CURR \in ids IN SelectSeq(records, among)

\* a record of sub gets another label there than it gets in full
LabelsDiffer(full, sub) ==
  \E i \in 1..Len(full), j \in 1..Len(sub) :
    /\ full[i] = sub[j]
    /\ addIncomeBrackets(full)[i].INCOME_BRACKET # addIncomeBrackets(sub)[j].INCOME_BRACKET

\* C25: bracket assignment is relative to the batch: there are a collection, a
\* part of it and a record of the part that addIncomeBrackets labels
\* differently in the two; every collection with two different incomes has
\* such a part and such a record
C25_BatchRelative ==
  (/\ op[1] = "addIncomeBrackets"
   /\ \E i, j \in 1..Len(op[2]) : op[2][i].AMT_INCOME_TOTAL # op[2][j].AMT_INCOME_TOTAL) =>
    \E ids \in SUBSET {op[2][i].SK_ID_CURR : i \in 1..Len(op[2])} :
      /\ Len(Subcollection(op[2], ids)) < Len(op[2])
      /\ LabelsDiffer(op[2], Subcollection(op[2], ids))

\* addIncomeBrackets has labelled a collection, and one of its records gets
\* another label within a part of the collection
C25_Witness ==
  /\ op[1] = "addIncomeBrackets"
  /\ \E ids \in SUBSET {op[2][i].SK_ID_CURR : i \in 1..Len(op[2])} :
       \E i \in 1..Len(op[2]) :
         LET sub == Subcollection(op[2], ids)
         IN  /\ op[2][i].SK_ID_CURR \in ids
             /\ Len(sub) < Len(op[2])
             /\ \E j \in 1..Len(sub) :
                  /\ sub[j] = op[2][i]
                  /\ addIncomeBrackets(sub)[j].INCOME_BRACKET # out[i].INCOME_BRACKET

\* C26: for every age, income, education and employment tenure
\* getDefaultRiskByProfile returns a probability above 0 and at most 0.5: the
\* 8% baseline times the four factors, cut at 0.5; TARGET is 1 exactly when
\* the draw is below that probability
C26_RiskCapped ==
  op[1] = "getDefaultRiskByProfile" =>
    /\ out.defaultRisk > 0
    /\ out.defaultRisk <= 500000
    /\ \E a \in {10, 12, 13, 15}, b \in {6, 10, 14, 20}, c \in {7, 10, 14}, d \in {8, 10, 18} :
         /\ a = 15 <=> op[2] < 25
         /\ a = 12 <=> (op[2] >= 25 /\ op[2] < 35)
         /\ a = 13 <=> op[2] > 65
         /\ b = 20 <=> op[3] < 100000
         /\ b = 14 <=> (op[3] >= 100000 /\ op[3] < 200000)
         /\ b = 6 <=> op[3] > 500000
         /\ c = 7 <=> op[4] \in {"Higher education", "Academic degree"}
         /\ c = 14 <=> op[4] = "Lower secondary"
         /\ d = 18 <=> op[5] < 10
         /\ d = 8 <=> op[5] > 100
         /\ out.defaultRisk = Min(500000, 8 * a * b * c * d)
    /\ out.target = 1 <=> op[6] * 1000 < out.defaultRisk

\* a young, low-income, unemployed applicant with lower secondary education:
\* the product is above 0.5, the risk returned is 0.5, and a draw just below
\* 0.5 makes the applicant a defaulter
C26_Witness ==
  /\ op[1] = "getDefaultRiskByProfile"
  /\ op[2] < 25 /\ op[3] < 100000 /\ op[4] = "Lower secondary" /\ op[5] < 10
  /\ out.defaultRisk = 500000
  /\ op[6] = 499
  /\ out.target = 1

=============================================================================
